---- MODULE Spec2Model ----
(***************************************************************************)
(* Model of the data-access layer in src/utils/db.go (package utils):      *)
(* SQLiteRepository over one SQLite database opened through sqlx and       *)
(* mattn/go-sqlite3.                                                       *)
(*                                                                         *)
(* The state is the database file (which tables exist and their rows), the *)
(* foreign_keys setting of the connection, whether the process is alive,   *)
(* and a record of the last call with its arguments and results.           *)
(*                                                                         *)
(* SQL statements are modelled by what SQLite does with them:              *)
(*  - "PRAGMA foreign_keys;" (db.go:72) has no value, so it reads the      *)
(*    setting and changes nothing; enforcement is whatever the datasource  *)
(*    string given to OpenDB selected (off unless it asks for it);         *)
(*  - the CREATE TABLE texts for brand and model (db.go:74-88) end their   *)
(*    column list with a comma before ")" and are rejected by the SQL      *)
(*    parser; the text for windshield (db.go:90-102) is well formed;       *)
(*  - "id INTEGER PRIMARY KEY" is the rowid: a new row gets max(id)+1;     *)
(*  - UNIQUE is checked while the row is inserted, an immediate foreign    *)
(*    key at the end of the statement, and only when foreign_keys is on.   *)
(* sqlx's Get scans ONE row into its destination and refuses a             *)
(* destination that is not a struct when the result has several columns.   *)
(***************************************************************************)
EXTENDS Integers, FiniteSets, Sequences, TLC

\* ---- bounds ------------------------------------------------------------
MaxId == 2             \* largest rowid a table may hand out
MaxWindshields == 2    \* most rows kept in the windshield table

Names == {"a", "b"}                 \* brand and model names
Ids == 1..MaxId                     \* id arguments (present or absent rows)
StockValues == {-1, 1}              \* int64 stock arguments, both signs
Types == {"WINDSHIELD"}             \* one of the WindshieldType constants
Years == {"2000"}

AllTables == {"brand", "model", "windshield"}

\* ---- errors ------------------------------------------------------------
nil == "nil"
ErrDuplicate == "ErrDuplicate"                       \* db.go:50
ErrNoRows == "sql.ErrNoRows"
ErrConstraintUnique == "sqlite3.ErrConstraintUnique"
ErrConstraintForeignKey == "sqlite3.ErrConstraintForeignKey"
ErrNoSuchTable == "sqlite3.ErrError: no such table"
ErrScannableDest == "sqlx: scannable dest type slice with >1 columns"
ErrScanUnsupported == "sql: Scan error: unsupported Scan"
ErrConnect == "connect error"

VARIABLES
    schema,       \* tables that exist in the database file
    fk,           \* foreign_keys setting of the store's connection
    brand,        \* rows of table brand      [id, name]
    model,        \* rows of table model      [id, name, brand_id]
    windshield,   \* rows of table windshield [id, type, year, stock, brand_id, model_id]
    proc,         \* "open": handle usable; "dead": the process panicked
    written,      \* history: id -> stock argument of the call that last wrote row id
    last          \* history: the last call, its arguments and what it returned

vars == <<schema, fk, brand, model, windshield, proc, written, last>>

NoCall == [op |-> "none", name |-> "", id1 |-> 0, stock |-> 0,
           ret |-> 0, err |-> nil, envFail |-> "none",
           outNil |-> TRUE, out |-> {}]

Call(op) == [NoCall EXCEPT !.op = op]

\* ---- helpers -----------------------------------------------------------
RECURSIVE SetMax(_)
SetMax(S) ==
    IF S = {} THEN 0
    ELSE LET x == CHOOSE y \in S : TRUE
             m == SetMax(S \ {x})
         IN IF x > m THEN x ELSE m

\* rowid given to a row inserted without an explicit id
NextRowid(rows) == SetMax({r.id : r \in rows}) + 1

\* ---- OpenDB ------------------------------------------------------------
\* The datasource names a database file that is new or that already holds
\* the three tables (the schema texts say CREATE TABLE IF NOT EXISTS), and
\* selects the connection's foreign_keys setting.
Init ==
    /\ schema \in {{}, AllTables}
    /\ fk \in BOOLEAN
    /\ brand = {}
    /\ model = {}
    /\ windshield = {}
    /\ proc = "open"
    /\ written = [i \in Ids |-> 0]
    /\ last = NoCall

\* A new process opens the same datasource: the database file is as the
\* dead process left it and foreign_keys is set as before.  sqlx.Connect
\* may fail, and then no handle is stored.
OpenDB ==
    /\ proc = "dead"
    /\ \E ok \in BOOLEAN :
         IF ok
         THEN /\ proc' = "open"
              /\ last' = Call("OpenDB")
         ELSE /\ proc' = proc
              /\ last' = [Call("OpenDB") EXCEPT !.err = ErrConnect]
    /\ UNCHANGED <<schema, fk, brand, model, windshield, written>>

\* ---- Migrate -----------------------------------------------------------
\* The four statements of Migrate in the order they are executed.  parses
\* is whether SQLite's parser accepts the text.
Stmts ==
    << [name |-> "pragma",     creates |-> {},             parses |-> TRUE],
       [name |-> "brand",      creates |-> {"brand"},      parses |-> FALSE],
       [name |-> "model",      creates |-> {"model"},      parses |-> FALSE],
       [name |-> "windshield", creates |-> {"windshield"}, parses |-> TRUE] >>

\* Where the storage engine may additionally refuse (I/O error, busy, full).
EnvFailures == {"none", "begin", "pragma", "brand", "model", "windshield", "commit"}

StmtFails(s, envFail) == ~s.parses \/ envFail = s.name

\* Some step of a Migrate call made under envFail fails.
MigrateFails(envFail) ==
    \/ envFail \in {"begin", "commit"}
    \/ \E i \in 1..Len(Stmts) : StmtFails(Stmts[i], envFail)

RECURSIVE TxRun(_, _, _, _)

\* Exec whose error is dropped: the transaction goes on to the next statement.
ExecIgnoringError(i, txSchema, schema0, envFail) ==
    TxRun(i + 1, txSchema, schema0, envFail)

\* tx.MustExec on a failing statement panics; the transaction is never
\* committed, so the database keeps the schema it had.
MustExecFailed(i, txSchema, schema0, envFail) ==
    [panic |-> TRUE, at |-> Stmts[i].name, schema |-> schema0]

\* tx.Commit: on error the driver rolls back and Migrate panics.
Commit(txSchema, schema0, envFail) ==
    IF envFail = "commit"
    THEN [panic |-> TRUE, at |-> "commit", schema |-> schema0]
    ELSE [panic |-> FALSE, at |-> "none", schema |-> txSchema]

\* Statements i.. of the transaction; txSchema is the schema as the
\* transaction sees it, schema0 the committed schema.
TxRun(i, txSchema, schema0, envFail) ==
    IF i > Len(Stmts)
    THEN Commit(txSchema, schema0, envFail)
    ELSE IF StmtFails(Stmts[i], envFail)
         THEN MustExecFailed(i, txSchema, schema0, envFail)
         ELSE TxRun(i + 1, txSchema \cup Stmts[i].creates, schema0, envFail)

MigrateResult(schema0, envFail) ==
    IF envFail = "begin"
    THEN [panic |-> TRUE, at |-> "begin", schema |-> schema0]
    ELSE TxRun(1, schema0, schema0, envFail)

Migrate ==
    /\ proc = "open"
    /\ \E envFail \in EnvFailures :
         LET r == MigrateResult(schema, envFail) IN
         /\ schema' = r.schema
         /\ proc' = IF r.panic THEN "dead" ELSE "open"
         /\ last' = [Call("Migrate") EXCEPT
                        !.envFail = envFail,
                        !.name = r.at,
                        !.err = IF r.panic THEN "panic" ELSE nil]
    /\ UNCHANGED <<fk, brand, model, windshield, written>>

\* ---- inserts -----------------------------------------------------------
\* What the function returns for a failed Exec: a unique-constraint error
\* becomes ErrDuplicate, any other error is returned as it is.
NeverDuplicate(sqliteErr) == sqliteErr

InsertError(sqliteErr) ==
    IF sqliteErr = ErrConstraintUnique THEN ErrDuplicate ELSE sqliteErr

\* INSERT INTO brand(name) values(?)
ExecInsertBrand(name) ==
    IF "brand" \notin schema THEN [err |-> ErrNoSuchTable, id |-> 0]
    ELSE IF \E b \in brand : b.name = name
         THEN [err |-> ErrConstraintUnique, id |-> 0]
         ELSE [err |-> nil, id |-> NextRowid(brand)]

CreateBrand ==
    /\ proc = "open"
    /\ \E name \in Names :
         LET res == ExecInsertBrand(name) IN
         /\ res.id <= MaxId
         /\ IF res.err # nil
            THEN /\ brand' = brand
                 /\ last' = [Call("CreateBrand") EXCEPT
                                !.name = name, !.err = InsertError(res.err)]
            ELSE /\ brand' = brand \cup {[id |-> res.id, name |-> name]}
                 /\ last' = [Call("CreateBrand") EXCEPT
                                !.name = name, !.ret = res.id]
    /\ UNCHANGED <<schema, fk, model, windshield, proc, written>>

\* INSERT INTO model(name, brand_id) values(?, ?)
ExecInsertModel(name, brand_id) ==
    IF "model" \notin schema THEN [err |-> ErrNoSuchTable, id |-> 0]
    ELSE IF \E m \in model : m.name = name
         THEN [err |-> ErrConstraintUnique, id |-> 0]
         ELSE IF fk /\ ~\E b \in brand : b.id = brand_id
              THEN [err |-> ErrConstraintForeignKey, id |-> 0]
              ELSE [err |-> nil, id |-> NextRowid(model)]

CreateModel ==
    /\ proc = "open"
    /\ \E name \in Names, brand_id \in Ids :
         LET res == ExecInsertModel(name, brand_id) IN
         /\ res.id <= MaxId
         /\ IF res.err # nil
            THEN /\ model' = model
                 /\ last' = [Call("CreateModel") EXCEPT
                                !.name = name, !.id1 = brand_id,
                                !.err = InsertError(res.err)]
            ELSE /\ model' = model \cup
                        {[id |-> res.id, name |-> name, brand_id |-> brand_id]}
                 /\ last' = [Call("CreateModel") EXCEPT
                                !.name = name, !.id1 = brand_id,
                                !.ret = res.id]
    /\ UNCHANGED <<schema, fk, brand, windshield, proc, written>>

\* INSERT INTO windshield(type, year, stock, brand_id, model_id) values(...)
\* UNIQUE(id, model_id) cannot fail: the id is new.
ExecInsertWindshield(brand_id, model_id) ==
    IF "windshield" \notin schema THEN [err |-> ErrNoSuchTable, id |-> 0]
    ELSE IF fk /\ ~( /\ \E b \in brand : b.id = brand_id
                     /\ \E m \in model : m.id = model_id )
         THEN [err |-> ErrConstraintForeignKey, id |-> 0]
         ELSE [err |-> nil, id |-> NextRowid(windshield)]

CreateWindshield ==
    /\ proc = "open"
    /\ \E typename \in Types, year \in Years, stock \in StockValues,
          brand_id \in Ids, model_id \in Ids :
         LET res == ExecInsertWindshield(brand_id, model_id)
             c == [Call("CreateWindshield") EXCEPT !.stock = stock]
         IN
         /\ res.id <= MaxId
         /\ res.err = nil => Cardinality(windshield) < MaxWindshields
         /\ IF res.err # nil
            THEN /\ windshield' = windshield
                 /\ written' = written
                 /\ last' = [c EXCEPT !.err = InsertError(res.err)]
            ELSE /\ windshield' = windshield \cup
                        {[id |-> res.id, type |-> typename, year |-> year,
                          stock |-> stock, brand_id |-> brand_id,
                          model_id |-> model_id]}
                 /\ written' = [written EXCEPT ![res.id] = stock]
                 /\ last' = [c EXCEPT !.ret = res.id]
    /\ UNCHANGED <<schema, fk, brand, model, proc>>

\* ---- UpdateWindshieldStock ---------------------------------------------
\* UPDATE windshield SET stock=? with no WHERE clause: every row is written.
UpdateEveryRow(rows, id, stock) ==
    {[w EXCEPT !.stock = stock] : w \in rows}

\* UPDATE windshield SET stock=? that keeps the stock at or above zero.
UpdateClamped(rows, id, stock) ==
    {IF w.id = id THEN [w EXCEPT !.stock = IF stock < 0 THEN 0 ELSE stock]
     ELSE w : w \in rows}

\* UPDATE that inserts the row when no row has the id.
UpdateOrInsert(rows, id, stock) ==
    IF \E w \in rows : w.id = id
    THEN {IF w.id = id THEN [w EXCEPT !.stock = stock] ELSE w : w \in rows}
    ELSE rows \cup {[id |-> id, type |-> "WINDSHIELD", year |-> "2000",
                     stock |-> stock, brand_id |-> 1, model_id |-> 1]}

\* UPDATE windshield SET stock=? WHERE id=?   (the rows after the statement)
ExecUpdateStock(rows, id, stock) ==
    {IF w.id = id THEN [w EXCEPT !.stock = stock] ELSE w : w \in rows}

UpdateWindshieldStock ==
    /\ proc = "open"
    /\ \E id \in Ids, stock \in StockValues :
         LET c == [Call("UpdateWindshieldStock") EXCEPT
                      !.id1 = id, !.stock = stock]
         IN
         IF "windshield" \notin schema
         THEN /\ windshield' = windshield
              /\ written' = written
              /\ last' = [c EXCEPT !.err = ErrNoSuchTable]
         ELSE /\ windshield' = ExecUpdateStock(windshield, id, stock)
              /\ written' = IF \E w \in windshield : w.id = id
                            THEN [written EXCEPT ![id] = stock]
                            ELSE written
              /\ last' = c
    /\ UNCHANGED <<schema, fk, brand, model, proc>>

\* ---- queries -----------------------------------------------------------
\* reflect kind of the value a destination pointer points to; sqlx treats
\* every kind but struct as a single-column ("scannable") destination.
IsScannable(kind) == kind # "struct"

\* sqlx Get(dest, query): run the query, then scanAny.  The result is the
\* error; dest (a nil slice here) is only written by a successful scan.
Get(destKind, tableExists, ncols, rows) ==
    IF ~tableExists THEN ErrNoSuchTable
    ELSE IF IsScannable(destKind) /\ ncols > 1 THEN ErrScannableDest
    ELSE IF rows = {} THEN ErrNoRows
    ELSE IF IsScannable(destKind) THEN ErrScanUnsupported
    ELSE nil

\* The common tail of the four query functions: ErrNoRows becomes an empty
\* slice and no error, another error is returned with an empty slice, and
\* without error the destination variable is returned.
QueryReturn(c, err, dest) ==
    IF err # nil
    THEN IF err = ErrNoRows
         THEN [c EXCEPT !.outNil = FALSE, !.out = {}, !.err = nil]
         ELSE [c EXCEPT !.outNil = FALSE, !.out = {}, !.err = err]
    ELSE [c EXCEPT !.outNil = (dest = {}), !.out = dest, !.err = nil]

\* Get never fills a slice destination: it stays the nil slice.
NilSlice == {}

GetAllBrands ==
    /\ proc = "open"
    /\ last' = QueryReturn(Call("GetAllBrands"),
                           Get("slice", "brand" \in schema, 2, brand),
                           NilSlice)
    /\ UNCHANGED <<schema, fk, brand, model, windshield, proc, written>>

GetModelsByBrandId ==
    /\ proc = "open"
    /\ \E id \in Ids :
         last' = QueryReturn([Call("GetModelsByBrandId") EXCEPT !.id1 = id],
                             Get("slice", "model" \in schema, 3,
                                 {m \in model : m.brand_id = id}),
                             NilSlice)
    /\ UNCHANGED <<schema, fk, brand, model, windshield, proc, written>>

GetModelsByBrandName ==
    /\ proc = "open"
    /\ \E name \in Names :
         last' = QueryReturn([Call("GetModelsByBrandName") EXCEPT !.name = name],
                             Get("slice", {"model", "brand"} \subseteq schema, 4,
                                 {m \in model : \E b \in brand :
                                     b.id = m.brand_id /\ b.name = name}),
                             NilSlice)
    /\ UNCHANGED <<schema, fk, brand, model, windshield, proc, written>>

GetWindShieldsByModelId ==
    /\ proc = "open"
    /\ \E id \in Ids :
         last' = QueryReturn([Call("GetWindShieldsByModelId") EXCEPT !.id1 = id],
                             Get("slice", "windshield" \in schema, 6,
                                 {w \in windshield : w.model_id = id}),
                             NilSlice)
    /\ UNCHANGED <<schema, fk, brand, model, windshield, proc, written>>

\* ---- direct storage actions --------------------------------------------
\* The history of a row ends when the row is deleted.
Forget(hist, rows) ==
    [i \in Ids |-> IF \E w \in rows : w.id = i THEN hist[i] ELSE 0]

\* DELETE FROM brand WHERE id=? on the store's connection.  ON DELETE
\* CASCADE acts only when foreign_keys is on: the brand's models go, and
\* with them the windshields of the brand and of those models.
DeleteBrand ==
    /\ proc = "open"
    /\ "brand" \in schema
    /\ \E id \in Ids :
         /\ \E b \in brand : b.id = id
         /\ brand' = {b \in brand : b.id # id}
         /\ IF fk
            THEN LET gone == {m \in model : m.brand_id = id} IN
                 /\ model' = model \ gone
                 /\ windshield' = {w \in windshield :
                                      /\ w.brand_id # id
                                      /\ ~\E m \in gone : m.id = w.model_id}
            ELSE /\ model' = model
                 /\ windshield' = windshield
         /\ last' = [Call("DeleteBrand") EXCEPT !.id1 = id]
    /\ written' = Forget(written, windshield')
    /\ UNCHANGED <<schema, fk, proc>>

\* DELETE FROM model WHERE id=? on the store's connection.
DeleteModel ==
    /\ proc = "open"
    /\ "model" \in schema
    /\ \E id \in Ids :
         /\ \E m \in model : m.id = id
         /\ model' = {m \in model : m.id # id}
         /\ windshield' = IF fk
                          THEN {w \in windshield : w.model_id # id}
                          ELSE windshield
         /\ last' = [Call("DeleteModel") EXCEPT !.id1 = id]
    /\ written' = Forget(written, windshield')
    /\ UNCHANGED <<schema, fk, brand, proc>>

Next ==
    \/ OpenDB
    \/ Migrate
    \/ CreateBrand
    \/ CreateModel
    \/ CreateWindshield
    \/ UpdateWindshieldStock
    \/ GetAllBrands
    \/ GetModelsByBrandId
    \/ GetModelsByBrandName
    \/ GetWindShieldsByModelId
    \/ DeleteBrand
    \/ DeleteModel

Spec == Init /\ [][Next]_vars

\* ======================================================================
\* Properties.  A step of operation X is a step whose new last.op is X;
\* last' carries the arguments and results of that call, the unprimed
\* tables are the store the call found.
\* ======================================================================

\* C1: CreateBrand of a name some brand row has, and CreateModel of a name
\* some model row has (whatever its brand), return ErrDuplicate and
\* identity 0 and leave the three tables as they were.
DuplicateIsRejected ==
    [][ ( \/ /\ last'.op = "CreateBrand"
             /\ \E b \in brand : b.name = last'.name
          \/ /\ last'.op = "CreateModel"
             /\ \E m \in model : m.name = last'.name )
        => /\ last'.err = ErrDuplicate
           /\ last'.ret = 0
           /\ brand' = brand
           /\ model' = model
           /\ windshield' = windshield ]_vars

\* A duplicate CreateBrand was answered while another brand exists too.
DuplicateBrandSeen ==
    /\ last.op = "CreateBrand"
    /\ last.err = ErrDuplicate
    /\ \E b \in brand : b.name = last.name
    /\ \E b \in brand : b.name # last.name

\* C2: with the schema in place, CreateModel with a brand_id that no brand
\* row has fails with an error other than ErrDuplicate and inserts no row.
CreateModelNeedsBrand ==
    [][ ( /\ last'.op = "CreateModel"
          /\ schema = AllTables
          /\ ~\E b \in brand : b.id = last'.id1 )
        => /\ last'.err \notin {nil, ErrDuplicate}
           /\ model' = model ]_vars

\* C3: every model row names an existing brand, every windshield row an
\* existing brand and an existing model.
ReferentialIntegrity ==
    /\ \A m \in model : \E b \in brand : b.id = m.brand_id
    /\ \A w \in windshield :
         /\ \E b \in brand : b.id = w.brand_id
         /\ \E m \in model : m.id = w.model_id

\* C4: deleting a brand row leaves no model row of that brand, no
\* windshield row of that brand or of one of its deleted models, and keeps
\* every other model row.
DeleteBrandCascades ==
    [][ last'.op = "DeleteBrand"
        => /\ \A m \in model' : m.brand_id # last'.id1
           /\ \A w \in windshield' :
                /\ w.brand_id # last'.id1
                /\ ~\E m \in model : m.brand_id = last'.id1 /\ m.id = w.model_id
           /\ \A m \in model : m.brand_id # last'.id1 => m \in model' ]_vars

\* C5: on a store that has the windshield table, UpdateWindshieldStock with
\* an id no row has returns no error, creates no row and alters no row of
\* any table.
UpdateStockMissingIsNoOp ==
    [][ ( /\ last'.op = "UpdateWindshieldStock"
          /\ "windshield" \in schema
          /\ ~\E w \in windshield : w.id = last'.id1 )
        => /\ last'.err = nil
           /\ windshield' = windshield
           /\ brand' = brand
           /\ model' = model
           /\ schema' = schema ]_vars

\* An update of an absent id was answered while other rows exist.
UpdateMissingSeen ==
    /\ last.op = "UpdateWindshieldStock"
    /\ last.err = nil
    /\ windshield # {}
    /\ \A w \in windshield : w.id # last.id1 /\ w.stock # last.stock

\* C6: a Migrate call in which a statement or the commit fails ends in a
\* panic and leaves the schema of the database as it was before the call.
MigrateAllOrNothing ==
    [][ ( /\ last'.op = "Migrate"
          /\ proc = "open"
          /\ MigrateFails(last'.envFail) )
        => /\ proc' = "dead"
           /\ last'.err = "panic"
           /\ schema' = schema ]_vars

\* Migrate has panicked on a new database file.
MigratePanicked ==
    /\ last.op = "Migrate"
    /\ MigrateFails(last.envFail)
    /\ proc = "dead"
    /\ schema = {}

\* C7: GetAllBrands right after a successful CreateBrand(name) that
\* returned i gives no error and exactly one entry named name, with id i.
CreateBrandRoundTrip ==
    [][ ( /\ last.op = "CreateBrand"
          /\ last.err = nil
          /\ last'.op = "GetAllBrands" )
        => /\ last'.err = nil
           /\ Cardinality({b \in last'.out : b.name = last.name}) = 1
           /\ \A b \in last'.out : b.name = last.name => b.id = last.ret ]_vars

\* C8: with the schema in place, a query whose key matches no row returns
\* an empty, non-nil sequence and no error.
NoMatch ==
    \/ last.op = "GetAllBrands" /\ brand = {}
    \/ last.op = "GetModelsByBrandId"
          /\ ~\E m \in model : m.brand_id = last.id1
    \/ last.op = "GetModelsByBrandName"
          /\ ~\E m \in model : \E b \in brand :
                 b.id = m.brand_id /\ b.name = last.name
    \/ last.op = "GetWindShieldsByModelId"
          /\ ~\E w \in windshield : w.model_id = last.id1

QueryWithoutMatchIsEmpty ==
    (schema = AllTables /\ NoMatch)
        => /\ last.err = nil
           /\ ~last.outNil
           /\ last.out = {}

\* C9: no windshield row has a stock below zero.
StockNonNegative ==
    \A w \in windshield : w.stock >= 0

\* C9 as amended: the stock of every windshield row is the stock argument
\* of the CreateWindshield or UpdateWindshieldStock call that last wrote
\* the row, whatever its sign.
StockIsLastWritten ==
    \A w \in windshield : w.stock = written[w.id]

\* An update has stored a negative stock.
NegativeStockStored ==
    /\ last.op = "UpdateWindshieldStock"
    /\ last.stock < 0
    /\ \E w \in windshield : w.id = last.id1 /\ w.stock = last.stock

\* C10: UpdateWindshieldStock with the id of a windshield row returns no
\* error, gives that row the new stock and changes nothing else of it, of
\* the other windshield rows, or of the brand and model tables.
UpdateStockWritesOneRow ==
    [][ ( /\ last'.op = "UpdateWindshieldStock"
          /\ \E w \in windshield : w.id = last'.id1 )
        => /\ last'.err = nil
           /\ \A w \in windshield :
                IF w.id = last'.id1
                THEN [w EXCEPT !.stock = last'.stock] \in windshield'
                ELSE w \in windshield'
           /\ Cardinality(windshield') = Cardinality(windshield)
           /\ brand' = brand
           /\ model' = model ]_vars

\* An update changed the stock of one row and another row kept a
\* different stock.
UpdateOneOfTwoSeen ==
    /\ last.op = "UpdateWindshieldStock"
    /\ last.err = nil
    /\ \E w \in windshield : w.id = last.id1 /\ w.stock = last.stock
    /\ \E w \in windshield : w.id # last.id1 /\ w.stock # last.stock

====
